---- MODULE Spec2Model ----
(***************************************************************************)
(* docker2sh: Dockerfile -> shell script translator (src/docker2sh.py).    *)
(*                                                                         *)
(* Text is modelled as sequences of one-character strings.  Inside the     *)
(* line scanner every character of a value is a cell [c, l, k]: the        *)
(* character c together with the input line l (0-based, as lineno) and the *)
(* column k (1-based) it was read from.  The code's operations look only   *)
(* at c; l and k are carried along so that properties can speak about      *)
(* "this backslash" or "this tab" of the input.                            *)
(***************************************************************************)
EXTENDS Integers, Sequences, FiniteSets, TLC

VARIABLES data, keeptabs, json, dfile, files,
          lineno, in_continuation, cur_inst, instructions,
          pc, idx, val, script, stdout

vars == <<data, keeptabs, json, dfile, files,
          lineno, in_continuation, cur_inst, instructions,
          pc, idx, val, script, stdout>>

scanvars == <<lineno, in_continuation, cur_inst, instructions>>
argvars == <<data, keeptabs, json, dfile, files>>

----------------------------------------------------------------------------
(* Bounds of the model *)

MaxLines == 3
MaxValLen == 3

----------------------------------------------------------------------------
(* Characters *)

BS == "\\"
TAB == "\t"
SP == " "
NL == "\n"
(* the grave accent U+0060, which a TLA+ string literal cannot hold *)
BQ == "GRAVE"
DOLLAR == "$"
DQ == "\""

LowerLetters ==
  <<"a","b","c","d","e","f","g","h","i","j","k","l","m",
    "n","o","p","q","r","s","t","u","v","w","x","y","z">>

UpperLetters ==
  <<"A","B","C","D","E","F","G","H","I","J","K","L","M",
    "N","O","P","Q","R","S","T","U","V","W","X","Y","Z">>

Digits == {"0","1","2","3","4","5","6","7","8","9"}

Range(s) == {s[i] : i \in 1..Len(s)}

(* \s of the re module and the characters str.strip() removes; a line    *)
(* produced by splitlines() holds no line-break character                *)
IsSpace(c) == c \in {SP, TAB}

(* \w of the re module *)
IsWord(c) == c \in Range(LowerLetters) \cup Range(UpperLetters) \cup Digits \cup {"_"}

(* str.upper() on one character *)
UpperChar(c) ==
  IF \E i \in 1..26 : LowerLetters[i] = c
  THEN UpperLetters[CHOOSE i \in 1..26 : LowerLetters[i] = c]
  ELSE c

upper(s) == [i \in 1..Len(s) |-> UpperChar(s[i])]

----------------------------------------------------------------------------
(* Cells: characters tagged with the input position they come from *)

Cells(line, ln) == [i \in 1..Len(line) |-> [c |-> line[i], l |-> ln, k |-> i]]

Chars(cs) == [i \in 1..Len(cs) |-> cs[i].c]

(* str.rstrip(): drop the trailing run of whitespace *)
rstrip(cs) ==
  LET keep == {i \in 1..Len(cs) : ~IsSpace(cs[i].c)}
      last == IF keep = {} THEN 0 ELSE CHOOSE i \in keep : \A j \in keep : j <= i
  IN SubSeq(cs, 1, last)

(* str.lstrip(): drop the leading run of whitespace *)
lstrip(cs) ==
  LET keep == {i \in 1..Len(cs) : ~IsSpace(cs[i].c)}
      first == IF keep = {} THEN Len(cs) + 1 ELSE CHOOSE i \in keep : \A j \in keep : i <= j
  IN SubSeq(cs, first, Len(cs))

(* variant of rstrip_backslash without the rstrip() of line 34 *)
rstrip_backslash_norstrip(line) ==
  IF Len(line) > 0 /\ line[Len(line)].c = BS
  THEN SubSeq(line, 1, Len(line) - 1)
  ELSE line

rstrip_backslash(line) ==
  LET s == rstrip(line)
  IN IF Len(s) > 0 /\ s[Len(s)].c = BS
     THEN SubSeq(s, 1, Len(s) - 1)
     ELSE s

(* str.replace('\t', '') *)
RemoveTabs(cs) == SelectSeq(cs, LAMBDA x : x.c # TAB)

----------------------------------------------------------------------------
(* The three regular expressions of main() *)

\* instre = ^\s*(\w+)\s+(.*)$ : the greedy match.  ws1 is the first
\* column after the leading whitespace, w2 the first column after the
\* maximal run of word characters, r the first column after the maximal
\* run of whitespace that follows.  Backtracking cannot produce another
\* match: a shorter \w+ is followed by a word character, not by \s.
FirstNotSpace(cs, from) ==
  LET hit == {i \in from..Len(cs) : ~IsSpace(cs[i].c)}
  IN IF hit = {} THEN Len(cs) + 1 ELSE CHOOSE i \in hit : \A j \in hit : i <= j

FirstNotWord(cs, from) ==
  LET hit == {i \in from..Len(cs) : ~IsWord(cs[i].c)}
  IN IF hit = {} THEN Len(cs) + 1 ELSE CHOOSE i \in hit : \A j \in hit : i <= j

(* variant of instre with \s* in place of \s+ after the keyword *)
instre_nows(cs) ==
  LET ws1 == FirstNotSpace(cs, 1)
      w2  == FirstNotWord(cs, ws1)
      r   == FirstNotSpace(cs, w2)
  IN [matched |-> (w2 > ws1),
      g0 |-> SubSeq(cs, ws1, w2 - 1),
      g1 |-> SubSeq(cs, r, Len(cs))]

instre(cs) ==
  LET ws1 == FirstNotSpace(cs, 1)
      w2  == FirstNotWord(cs, ws1)
      r   == FirstNotSpace(cs, w2)
  IN [matched |-> (w2 > ws1) /\ (r > w2),
      g0 |-> SubSeq(cs, ws1, w2 - 1),
      g1 |-> SubSeq(cs, r, Len(cs))]

\* contre = ^.*\\\s*$
contre(cs) ==
  LET s == rstrip(cs) IN Len(s) > 0 /\ s[Len(s)].c = BS

(* variant of commentre without the leading \s* *)
commentre_nows(cs) == Len(cs) > 0 /\ cs[1].c = "#"

\* commentre = ^\s*#
commentre(cs) ==
  LET s == lstrip(cs) IN Len(s) > 0 /\ s[1].c = "#"

----------------------------------------------------------------------------
(* The body of the for loop of main(), lines 136-158, as a function of    *)
(* the loop state st = [in_continuation, cur_inst, instructions]          *)

NoInst == [instruction |-> <<>>, value |-> <<>>, start |-> -1]

(* lines 144-147 *)
NewInst(cs, ln) ==
  [instruction |-> upper(Chars(instre(cs).g0)),
   value |-> rstrip_backslash(instre(cs).g1),
   start |-> ln]

(* lines 149-152 *)
Continued(cur, cs) ==
  IF cur.value # <<>>
  THEN [cur EXCEPT !.value = cur.value \o rstrip_backslash(cs)]
  ELSE [cur EXCEPT !.value = rstrip_backslash(lstrip(cs))]

(* variant of StripTabs that ignores --keeptabs *)
StripTabs_always(value, keep) == RemoveTabs(value)

(* lines 156-157 *)
StripTabs(value, keep) == IF keep THEN value ELSE RemoveTabs(value)

(* variant of ShouldAppend that appends after every line *)
ShouldAppend_always(cont) == TRUE

(* line 155: cur_inst is never None *)
ShouldAppend(cont) == ~cont

(* lines 154-158 *)
Finish(st, cur, cs, keep) ==
  LET cont == contre(cs)
      fin == [cur EXCEPT !.value = StripTabs(cur.value, keep)]
  IN IF ShouldAppend(cont)
     THEN [in_continuation |-> cont, cur_inst |-> fin,
           instructions |-> Append(st.instructions, fin)]
     ELSE [in_continuation |-> cont, cur_inst |-> cur,
           instructions |-> st.instructions]

LoopBody(st, line, ln, keep) ==
  LET cs == Cells(line, ln)
  IN IF commentre(cs) THEN st
     ELSE IF ~st.in_continuation
          THEN IF ~instre(cs).matched THEN st
               ELSE Finish(st, NewInst(cs, ln), cs, keep)
          ELSE Finish(st, Continued(st.cur_inst, cs), cs, keep)

ScanInit == [in_continuation |-> FALSE, cur_inst |-> NoInst, instructions |-> <<>>]

(* the whole for loop over a list of lines *)
RECURSIVE ScanFrom(_, _, _, _)
ScanFrom(st, lines, ln, keep) ==
  IF lines = <<>> THEN st
  ELSE ScanFrom(LoopBody(st, Head(lines), ln, keep), Tail(lines), ln + 1, keep)

Reconstruct(lines, keep) == ScanFrom(ScanInit, lines, 0, keep).instructions

----------------------------------------------------------------------------
(* String operations used by the translator, on plain character sequences *)

Contains(s, ch) == \E i \in 1..Len(s) : s[i] = ch

RECURSIVE Flatten(_)
Flatten(ss) == IF ss = <<>> THEN <<>> ELSE Head(ss) \o Flatten(Tail(ss))

(* str.replace(ch, rep) for a one-character ch *)
Replace(s, ch, rep) ==
  Flatten([i \in 1..Len(s) |-> IF s[i] = ch THEN rep ELSE <<s[i]>>])

(* str.replace(ch, rep, 1): the leftmost occurrence only *)
Replace1(s, ch, rep) ==
  IF ~Contains(s, ch) THEN s
  ELSE LET p == CHOOSE i \in 1..Len(s) : s[i] = ch /\ \A j \in 1..(i-1) : s[j] # ch
       IN SubSeq(s, 1, p - 1) \o rep \o SubSeq(s, p + 1, Len(s))

(* str.split(' '): the pieces between single spaces, empty pieces kept *)
RECURSIVE SplitSpace(_)
SplitSpace(s) ==
  IF ~Contains(s, SP) THEN <<s>>
  ELSE LET p == CHOOSE i \in 1..Len(s) : s[i] = SP /\ \A j \in 1..(i-1) : s[j] # SP
       IN <<SubSeq(s, 1, p - 1)>> \o SplitSpace(SubSeq(s, p + 1, Len(s)))

(* str.split(): the maximal runs of non-whitespace characters *)
RECURSIVE SplitWs(_)
SplitWs(s) ==
  LET starts == {i \in 1..Len(s) : ~IsSpace(s[i])}
  IN IF starts = {} THEN <<>>
     ELSE LET b == CHOOSE i \in starts : \A j \in starts : i <= j
              ends == {i \in b..Len(s) : IsSpace(s[i])}
              e == IF ends = {} THEN Len(s) + 1
                   ELSE CHOOSE i \in ends : \A j \in ends : i <= j
          IN <<SubSeq(s, b, e - 1)>> \o SplitWs(SubSeq(s, e, Len(s)))

----------------------------------------------------------------------------
(* parse_instruction, lines 57-104, and compress_and_b64, lines 40-54.     *)
(* A call returns [ok, out]: ok = FALSE stands for the exception that      *)
(* leaves the call, out is the returned text.                              *)

cmds ==
  {<<"A","D","D">>,
   <<"A","R","G">>,
   <<"C","M","D">>,
   <<"C","O","P","Y">>,
   <<"E","N","T","R","Y","P","O","I","N","T">>,
   <<"E","N","V">>,
   <<"E","X","P","O","S","E">>,
   <<"F","R","O","M">>,
   <<"H","E","A","L","T","H","C","H","E","C","K">>,
   <<"L","A","B","E","L">>,
   <<"M","A","I","N","T","A","I","N","E","R">>,
   <<"O","N","B","U","I","L","D">>,
   <<"R","U","N">>,
   <<"S","H","E","L","L">>,
   <<"S","T","O","P","S","I","G","N","A","L">>,
   <<"U","S","E","R">>,
   <<"V","O","L","U","M","E">>,
   <<"W","O","R","K","D","I","R">>}

Raise(e) == [ok |-> FALSE, out |-> <<>>, err |-> e]
Return(s) == [ok |-> TRUE, out |-> s, err |-> "none"]

(* val.replace('$', '\\$') *)
EscapeDollar(s) == Replace(s, DOLLAR, <<BS, DOLLAR>>)

(* variant of AddArgs with split() in place of split(SP) *)
AddArgs_ws(v) == SplitWs(v)

(* line 71 *)
AddArgs(v) == SplitSpace(v)

(* lines 69-72 *)
TranslateADD(v) ==
  LET args == AddArgs(EscapeDollar(v))
  IN IF Len(args) < 2 THEN Raise("IndexError")
     ELSE Return(<<"w","g","e","t"," ","-","O"," ">> \o args[2] \o <<SP>> \o args[1] \o <<NL>>)

(* lines 77-81 *)
TranslateENV(v) ==
  LET v1 == IF ~Contains(v, "=") THEN Replace1(v, SP, <<"=">>) ELSE v
  IN Return(<<"e","x","p","o","r","t"," ">> \o EscapeDollar(v1) \o <<NL>>)

(* variant of RunLoopBody without the second replace of line 87 *)
RunLoopBody_open(v) == Replace1(v, BQ, <<DQ, DOLLAR, "(">>)

(* lines 86-87: one iteration of the while loop *)
RunLoopBody(v) ==
  Replace1(Replace1(v, BQ, <<DQ, DOLLAR, "(">>), BQ, <<")", DQ>>)

(* lines 85-87: the while loop run to its exit *)
RECURSIVE RunWhile(_)
RunWhile(v) == IF Contains(v, BQ) THEN RunWhile(RunLoopBody(v)) ELSE v

(* line 88 *)
RunReturnValue(v) == EscapeDollar(v) \o <<NL>>

(* the bytes of bz2.compress() start with the magic BZh, whose base64 is *)
(* Qlpo; the rest of the payload depends on the file and is left out     *)
b64_payload == <<"Q","l","p","o">>

(* lines 40-54; lines 93-96 choose the directory the source is opened in *)
compress_and_b64(v, df, fs) ==
  LET spl == SplitWs(v)
      dir == IF Contains(df, "/") THEN "dir" ELSE "cwd"
  IN IF Len(spl) < 1 THEN Raise("IndexError")
     ELSE IF dir \notin fs THEN Raise("OSError")
     ELSE IF Len(spl) < 2 THEN Raise("IndexError")
     ELSE Return(<<"c","a","t"," ","<","<"," ","_","_","E","O","F","F","_","_"," ","|"," ","b","a","s","e","6","4"," ","-","d"," ","|"," ","b","u","n","z","i","p","2"," ",">"," ">> \o spl[2] \o <<NL>>
                 \o b64_payload \o <<NL>> \o <<"_","_","E","O","F","F","_","_">> \o <<NL>>)

(* lines 98-101 *)
NotImplemented(ins, v) ==
  <<"#","\n","#"," ">> \o ins
  \o <<" ","n","o","t"," ","i","m","p","l","e","m","e","n","t","e","d","\n","#"," ","I","n","s","t","r","u","c","t","i","o","n",":"," ">>
  \o ins \o <<SP>> \o v \o <<"\n","#","\n">>

parse_instruction(inst, df, fs) ==
  LET ins == upper(inst.instruction)
      v == Chars(inst.value)
  IN CASE ins = <<"A","D","D">> -> TranslateADD(v)
       [] ins = <<"A","R","G">> -> Return(v \o <<NL>>)
       [] ins = <<"E","N","V">> -> TranslateENV(v)
       [] ins = <<"R","U","N">> -> Return(RunReturnValue(RunWhile(v)))
       [] ins = <<"W","O","R","K","D","I","R">> ->
            Return(<<"m","k","d","i","r"," ","-","p"," ">> \o v \o <<" ","&","&"," ","c","d"," ">> \o v \o <<NL>>)
       [] ins = <<"C","O","P","Y">> -> compress_and_b64(v, df, fs)
       [] OTHER -> IF ins \in cmds THEN Return(NotImplemented(ins, v))
                   ELSE Return(<<>>)

----------------------------------------------------------------------------
(* json.dumps(instructions), line 161 *)

JsonEscapeChar(c) ==
  CASE c = DQ -> <<BS, DQ>>
    [] c = BS -> <<BS, BS>>
    [] c = TAB -> <<BS, "t">>
    [] c = NL -> <<BS, "n">>
    [] OTHER -> <<c>>

JsonString(s) == Flatten([i \in 1..Len(s) |-> JsonEscapeChar(s[i])])

JsonObject(inst) ==
  <<"{","\"","i","n","s","t","r","u","c","t","i","o","n","\"",":"," ","\"">> \o JsonString(inst.instruction)
  \o <<"\"",","," ","\"","v","a","l","u","e","\"",":"," ","\"">> \o JsonString(Chars(inst.value))
  \o <<"\"","}">>

json_dumps(insts) ==
  <<"[">> \o Flatten([i \in 1..Len(insts) |->
                       (IF i > 1 THEN <<",", SP>> ELSE <<>>) \o JsonObject(insts[i])])
  \o <<"]">>

(* print(x), lines 161 and 168 *)
Printed(text) == text \o <<NL>>

Shebang == <<"#","!","/","b","i","n","/","s","h","\n">>

----------------------------------------------------------------------------
(* Inputs *)

RECURSIVE SeqsUpTo(_, _)
SeqsUpTo(S, n) ==
  IF n = 0 THEN {<<>>}
  ELSE LET shorter == SeqsUpTo(S, n - 1)
       IN shorter \cup {Append(s, x) : s \in {t \in shorter : Len(t) = n - 1}, x \in S}

(* physical lines of a Dockerfile, as splitlines() returns them *)
ScanPool ==
  {<<"R","U","N"," ","a","\\"," ">>,
   <<"R","U","N"," ","a","\\","\\">>,
   <<"R","U","N"," ","\\">>,
   <<" ","b">>,
   <<"\t","b","\t","\\">>,
   <<"x","\t","y">>,
   <<"R","U","N"," ","a","\t","b","\t">>,
   <<"#","c">>,
   <<" ","#"," ","c","\\">>,
   <<>>,
   <<"R","U","N">>,
   <<"\\">>,
   <<"r","u","n"," ","x">>}

MainPool ==
  {<<"R","U","N"," ","e",BQ,"d",BQ>>,
   <<"A","D","D"," ","x">>,
   <<"A","D","D"," ","x"," ","y">>,
   <<"C","O","P","Y"," ","f"," ","g">>,
   <<"r","u","n"," ","a","\\">>,
   <<"#","c">>,
   <<"F","R","O","M"," ","u">>,
   <<"b">>}

DfilePool == {<<"-">>, <<"d","/","D">>}

KeywordPool ==
  {<<"A","D","D">>,
   <<"A","R","G">>,
   <<"E","N","V">>,
   <<"R","U","N">>,
   <<"W","O","R","K","D","I","R">>,
   <<"C","O","P","Y">>,
   <<"F","R","O","M">>,
   <<"F","O","O">>}

ValueAlphabet == {"a", SP, BQ, DOLLAR}

(* values the line scanner can emit never start with whitespace *)
ValuePool ==
  {v \in SeqsUpTo(ValueAlphabet, MaxValLen) : v = <<>> \/ ~IsSpace(v[1])}
  \cup {<<"e","c","h","o"," ",BQ,"d","a","t","e",BQ>>,
   <<"a"," ","b"," ","c">>,
   <<"a"," "," ","b">>,
   <<"f"," ","g">>}

----------------------------------------------------------------------------
(* State after argument parsing and reading the input, lines 111-134 *)

InitLocals ==
  /\ lineno = -1
  /\ in_continuation = FALSE
  /\ cur_inst = NoInst
  /\ instructions = <<>>
  /\ pc = "scan"
  /\ idx = 0
  /\ val = <<>>
  /\ script = <<>>
  /\ stdout = <<>>

Init ==
  /\ data \in SeqsUpTo(MainPool, MaxLines)
  /\ keeptabs \in BOOLEAN
  /\ json \in BOOLEAN
  /\ dfile \in DfilePool
  /\ files \in {{}, {"cwd", "dir"}}
  /\ InitLocals

InitScan ==
  /\ data \in SeqsUpTo(ScanPool, MaxLines)
  /\ keeptabs \in BOOLEAN
  /\ json = FALSE
  /\ dfile = <<"-">>
  /\ files = {}
  /\ InitLocals

(* one call of parse_instruction from the loop of line 166, on an        *)
(* instruction drawn from the pools                                      *)
InitTranslate ==
  /\ data = <<>>
  /\ keeptabs = FALSE
  /\ json = FALSE
  /\ dfile \in DfilePool
  /\ files \in SUBSET {"cwd", "dir"}
  /\ lineno = -1
  /\ in_continuation = FALSE
  /\ \E kw \in KeywordPool, v \in ValuePool :
       /\ cur_inst = [instruction |-> kw, value |-> Cells(v, 0), start |-> 0]
       /\ instructions = <<cur_inst>>
  /\ pc = "for"
  /\ idx = 1
  /\ val = <<>>
  /\ script = Shebang
  /\ stdout = <<>>

----------------------------------------------------------------------------
(* The for loop of lines 136-158: one action per path through its body *)

HasLine == pc = "scan" /\ lineno + 1 < Len(data)

Line == data[lineno + 2]

St == [in_continuation |-> in_continuation, cur_inst |-> cur_inst,
       instructions |-> instructions]

Step(st) ==
  /\ lineno' = lineno + 1
  /\ in_continuation' = st.in_continuation
  /\ cur_inst' = st.cur_inst
  /\ instructions' = st.instructions
  /\ UNCHANGED <<argvars, pc, idx, val, script, stdout>>

(* lines 138-139 *)
SkipComment ==
  /\ HasLine
  /\ commentre(Cells(Line, lineno + 1))
  /\ Step(LoopBody(St, Line, lineno + 1, keeptabs))

(* lines 140-143 *)
SkipNoMatch ==
  /\ HasLine
  /\ ~commentre(Cells(Line, lineno + 1))
  /\ ~in_continuation
  /\ ~instre(Cells(Line, lineno + 1)).matched
  /\ Step(LoopBody(St, Line, lineno + 1, keeptabs))

(* lines 140-147, 154-158 *)
StartInst ==
  /\ HasLine
  /\ ~commentre(Cells(Line, lineno + 1))
  /\ ~in_continuation
  /\ instre(Cells(Line, lineno + 1)).matched
  /\ Step(LoopBody(St, Line, lineno + 1, keeptabs))

(* lines 148-152, 154-158 *)
ContinueInst ==
  /\ HasLine
  /\ ~commentre(Cells(Line, lineno + 1))
  /\ in_continuation
  /\ Step(LoopBody(St, Line, lineno + 1, keeptabs))

(* the for loop is exhausted *)
EndLoop ==
  /\ pc = "scan"
  /\ lineno + 1 = Len(data)
  /\ pc' = "output"
  /\ UNCHANGED <<argvars, scanvars, idx, val, script, stdout>>

----------------------------------------------------------------------------
(* Output, lines 160-168 *)

(* lines 160-162 *)
PrintJson ==
  /\ pc = "output"
  /\ json
  /\ stdout' = Printed(json_dumps(instructions))
  /\ pc' = "done"
  /\ UNCHANGED <<argvars, scanvars, idx, val, script>>

(* line 165 *)
InitScript ==
  /\ pc = "output"
  /\ ~json
  /\ script' = Shebang
  /\ idx' = 1
  /\ pc' = "for"
  /\ UNCHANGED <<argvars, scanvars, val, stdout>>

InLoop == pc = "for" /\ idx <= Len(instructions)

IsRun(inst) == upper(inst.instruction) = <<"R","U","N">>

(* variant of Accumulate that prepends the fragment *)
Accumulate_front(scr, frag) == frag \o scr

(* line 167: script += ... *)
Accumulate(scr, frag) == scr \o frag

(* variant of AbortOutput that flushes the script assembled so far *)
AbortOutput_partial(out, scr) == out \o scr

(* an exception leaves main() before print(script) of line 168 *)
AbortOutput(out, scr) == out

(* line 167 calls parse_instruction, lines 61-62 and 83 *)
RunEnter ==
  /\ InLoop
  /\ IsRun(instructions[idx])
  /\ val' = Chars(instructions[idx].value)
  /\ pc' = "while"
  /\ UNCHANGED <<argvars, scanvars, idx, script, stdout>>

(* lines 85-87 *)
RunLoopIter ==
  /\ pc = "while"
  /\ Contains(val, BQ)
  /\ val' = RunLoopBody(val)
  /\ UNCHANGED <<argvars, scanvars, pc, idx, script, stdout>>

(* lines 85, 88 and 167 *)
RunReturn ==
  /\ pc = "while"
  /\ ~Contains(val, BQ)
  /\ script' = Accumulate(script, RunReturnValue(val))
  /\ idx' = idx + 1
  /\ pc' = "for"
  /\ UNCHANGED <<argvars, scanvars, val, stdout>>

(* line 167, any other instruction, the call returns *)
TranslateOther ==
  /\ InLoop
  /\ ~IsRun(instructions[idx])
  /\ parse_instruction(instructions[idx], dfile, files).ok
  /\ script' = Accumulate(script, parse_instruction(instructions[idx], dfile, files).out)
  /\ idx' = idx + 1
  /\ UNCHANGED <<argvars, scanvars, pc, val, stdout>>

(* line 167, the call raises: the exception ends the process *)
TranslateFail ==
  /\ InLoop
  /\ ~IsRun(instructions[idx])
  /\ ~parse_instruction(instructions[idx], dfile, files).ok
  /\ stdout' = AbortOutput(stdout, script)
  /\ pc' = "aborted"
  /\ UNCHANGED <<argvars, scanvars, idx, val, script>>

(* line 168 *)
PrintScript ==
  /\ pc = "for"
  /\ idx > Len(instructions)
  /\ stdout' = Printed(script)
  /\ pc' = "done"
  /\ UNCHANGED <<argvars, scanvars, idx, val, script>>

----------------------------------------------------------------------------
(* Specifications *)

NextScan == SkipComment \/ SkipNoMatch \/ StartInst \/ ContinueInst \/ EndLoop

NextTranslate ==
  RunEnter \/ RunLoopIter \/ RunReturn \/ TranslateOther \/ TranslateFail \/ PrintScript

Next ==
  \/ SkipComment \/ SkipNoMatch \/ StartInst \/ ContinueInst \/ EndLoop
  \/ PrintJson \/ InitScript
  \/ RunEnter \/ RunLoopIter \/ RunReturn \/ TranslateOther \/ TranslateFail \/ PrintScript

(* the whole program *)
Spec == Init /\ [][Next]_vars

(* the line scanner alone, on a larger pool of lines *)
SpecScan == InitScan /\ [][NextScan]_vars

(* the translator alone; the interpreter keeps executing a running process *)
SpecTranslate == InitTranslate /\ [][NextTranslate]_vars /\ WF_vars(NextTranslate)

----------------------------------------------------------------------------
(* Declarative readings of the line patterns, written without the         *)
(* functions of the model, for use in the properties                      *)

AllIn(line, a, b, P(_)) == \A i \in a..b : P(line[i])

(* <optional whitespace><keyword><whitespace><rest> *)
PatInstruction(line) ==
  \E a \in 0..Len(line), b \in 1..Len(line), c \in 1..Len(line) :
    /\ a < b /\ b < c
    /\ AllIn(line, 1, a, IsSpace)
    /\ AllIn(line, a + 1, b, IsWord)
    /\ AllIn(line, b + 1, c, IsSpace)

(* the line ends in a backslash, optionally followed by whitespace *)
PatBackslashEnd(line) ==
  \E p \in 1..Len(line) : line[p] = BS /\ AllIn(line, p + 1, Len(line), IsSpace)

(* optional leading whitespace, then # *)
PatComment(line) ==
  \E p \in 1..Len(line) : line[p] = "#" /\ AllIn(line, 1, p - 1, IsSpace)

Emitted == {instructions[i] : i \in 1..Len(instructions)}

PlainInst(inst) == [instruction |-> inst.instruction, value |-> Chars(inst.value)]

PlainState(st) ==
  [in_continuation |-> st.in_continuation,
   cur_inst |-> PlainInst(st.cur_inst),
   instructions |-> [i \in 1..Len(st.instructions) |-> PlainInst(st.instructions[i])]]

(* the cell is the backslash that ends its physical line *)
IsContinuationBackslash(x) ==
  /\ data[x.l + 1][x.k] = BS
  /\ AllIn(data[x.l + 1], x.k + 1, Len(data[x.l + 1]), IsSpace)

(* the lines joined into the instruction that starts on line s: each is *)
(* reached through lines that are comments or end in a backslash        *)
InstLines(s) ==
  {l \in s..(Len(data) - 1) :
     /\ ~PatComment(data[l + 1])
     /\ \A j \in s..(l - 1) : PatComment(data[j + 1]) \/ PatBackslashEnd(data[j + 1])}

(* the argument text of that instruction: the rest of its first line and *)
(* the whole of every continuation line                                  *)
ArgCells(s) ==
  Range(instre(Cells(data[s + 1], s)).g1)
  \cup UNION {Range(Cells(data[l + 1], l)) : l \in InstLines(s) \ {s}}

InTrailingSpace(x) == AllIn(data[x.l + 1], x.k, Len(data[x.l + 1]), IsSpace)

InLeadingSpace(x) == AllIn(data[x.l + 1], 1, x.k, IsSpace)

----------------------------------------------------------------------------
(* Properties of the line scanner (SpecScan) *)

InsertAt(d, p, c) == SubSeq(d, 1, p) \o <<c>> \o SubSeq(d, p + 1, Len(d))

CommentLines == {line \in ScanPool : PatComment(line)}

C5_CommentInsertion ==
  pc = "output" =>
    \A p \in 0..Len(data), c \in CommentLines :
      PlainState(ScanFrom(ScanInit, InsertAt(data, p, c), 0, keeptabs)) = PlainState(St)

(* an emitted instruction joined from lines before and after a comment *)
C5_Witness ==
  /\ pc = "output"
  /\ \E inst \in Emitted : \E x, y \in Range(inst.value) :
       \E l \in 0..(Len(data) - 1) : PatComment(data[l + 1]) /\ x.l < l /\ l < y.l

(* C6 as stated: without --keeptabs no emitted value contains a tab; with *)
(* --keeptabs every tab of the argument text is in the emitted value.     *)
C6_Original ==
  \A inst \in Emitted :
    /\ ~keeptabs => \A x \in Range(inst.value) : x.c # TAB
    /\ keeptabs => \A x \in ArgCells(inst.start) : x.c = TAB => x \in Range(inst.value)

(* the value of the instruction starting on line s is still empty when   *)
(* line l is joined: the earlier lines gave only whitespace and their    *)
(* continuation backslash                                                *)
EmptyBefore(s, l) ==
  \A y \in ArgCells(s) : y.l < l => (IsSpace(y.c) \/ IsContinuationBackslash(y))

(* C6 amended: without --keeptabs no emitted value contains a tab; with   *)
(* --keeptabs every tab of the argument text is in the emitted value,     *)
(* except a tab in the trailing whitespace of its physical line and a tab *)
(* in the leading whitespace of a continuation line that is joined while  *)
(* the value is still empty.                                              *)
C6_Tabs ==
  \A inst \in Emitted :
    /\ ~keeptabs => \A x \in Range(inst.value) : x.c # TAB
    /\ keeptabs =>
         \A x \in ArgCells(inst.start) :
           (/\ x.c = TAB
            /\ ~InTrailingSpace(x)
            /\ ~(x.l # inst.start /\ InLeadingSpace(x) /\ EmptyBefore(inst.start, x.l)))
           => x \in Range(inst.value)

(* --keeptabs, a tab kept inside a value and a trailing tab stripped *)
C6_Witness ==
  /\ keeptabs
  /\ \E inst \in Emitted :
       /\ \E x \in Range(inst.value) : x.c = TAB
       /\ \E x \in ArgCells(inst.start) : x.c = TAB /\ x \notin Range(inst.value)

(* C7: an instruction still in continuation when the input ends is never  *)
(* appended, and the emitted sequence is the one obtained from the input  *)
(* without the lines of that instruction.                                 *)
C7_UnterminatedDropped ==
  (pc = "output" /\ in_continuation) =>
    /\ PatBackslashEnd(data[Len(data)]) \/ PatComment(data[Len(data)])
    /\ \A inst \in Emitted : inst.start # cur_inst.start
    /\ instructions = Reconstruct(SubSeq(data, 1, cur_inst.start), keeptabs)

(* the input ends inside a continuation after an instruction was emitted *)
C7_Witness ==
  /\ pc = "output"
  /\ in_continuation
  /\ instructions # <<>>
  /\ cur_inst.value # <<>>

(* C9: when no line ends in a backslash and no line is a comment, the     *)
(* number of emitted instructions is the number of lines matching the     *)
(* instruction pattern, and the i-th emitted instruction starts on the    *)
(* i-th such line.                                                        *)
MatchingLines == {l \in 0..(Len(data) - 1) : PatInstruction(data[l + 1])}

C9_CountMatches ==
  (/\ pc = "output"
   /\ \A i \in 1..Len(data) : ~PatBackslashEnd(data[i]) /\ ~PatComment(data[i]))
  => /\ Len(instructions) = Cardinality(MatchingLines)
     /\ \A i \in 1..Len(instructions) :
          /\ instructions[i].start \in MatchingLines
          /\ Cardinality({l \in MatchingLines : l < instructions[i].start}) = i - 1

(* two matching lines around a line that does not match *)
C9_Witness ==
  /\ pc = "output"
  /\ \A i \in 1..Len(data) : ~PatBackslashEnd(data[i]) /\ ~PatComment(data[i])
  /\ Len(instructions) = 2
  /\ Len(data) = 3
  /\ ~PatInstruction(data[2])

----------------------------------------------------------------------------
(* Properties of the whole program (Spec) *)

ScriptOf(insts, n) ==
  Shebang \o Flatten([i \in 1..n |-> parse_instruction(insts[i], dfile, files).out])

(* C3: the emitted instructions start on strictly increasing input lines, *)
(* and in shell mode the script is the shebang followed by the            *)
(* translations of the emitted instructions, in that order.               *)
C3_Order ==
  /\ \A i \in 1..(Len(instructions) - 1) : instructions[i].start < instructions[i + 1].start
  /\ pc = "for" => script = ScriptOf(instructions, idx - 1)
  /\ (pc = "done" /\ ~json) => stdout = Printed(ScriptOf(instructions, Len(instructions)))

(* a printed script with two different, non-empty fragments *)
C3_Witness ==
  /\ pc = "done"
  /\ ~json
  /\ Len(instructions) >= 2
  /\ parse_instruction(instructions[1], dfile, files).out # <<>>
  /\ parse_instruction(instructions[2], dfile, files).out # <<>>
  /\ parse_instruction(instructions[1], dfile, files).out
       # parse_instruction(instructions[2], dfile, files).out

SomeTranslationFails ==
  \E i \in 1..Len(instructions) : ~parse_instruction(instructions[i], dfile, files).ok

(* C8: in shell mode, when the translation of an emitted instruction      *)
(* fails the run aborts and nothing is ever written to standard output;   *)
(* in JSON mode nothing is translated and the instruction array is        *)
(* printed.                                                               *)
C8_AllOrNothing ==
  /\ pc = "aborted" => stdout = <<>>
  /\ (~json /\ SomeTranslationFails) => (stdout = <<>> /\ pc # "done")
  /\ json => pc \notin {"for", "while", "aborted"}
  /\ (json /\ pc = "done") => stdout = Printed(json_dumps(instructions))

(* the run aborted after the fragment of an earlier instruction had been *)
(* assembled                                                             *)
C8_Witness ==
  /\ pc = "aborted"
  /\ idx >= 2
  /\ script # Shebang
  /\ stdout = <<>>

----------------------------------------------------------------------------
(* Properties of the translator (SpecTranslate: one instruction) *)

TheInst == instructions[1]

TheValue == Chars(instructions[1].value)

Translated == (pc = "for" /\ idx = 2) \/ pc = "done"

EchoDate == <<"e","c","h","o"," ",BQ,"d","a","t","e",BQ>>

(* C1: for (RUN, echo GRAVE date GRAVE) the output is exactly            *)
(* echo "$(date)" followed by one newline.                               *)
C1_RunBacktick ==
  (/\ pc = "done"
   /\ TheInst.instruction = <<"R","U","N">>
   /\ TheValue = EchoDate)
  => stdout = Printed(Shebang \o <<"e","c","h","o"," ","\"","$","(","d","a","t","e",")","\"","\n">>)

(* exactly two tokens, separated by exactly one space *)
WellFormedAdd(v) ==
  \E p \in 2..(Len(v) - 1) :
    /\ v[p] = SP
    /\ \A q \in 1..Len(v) : q # p => ~IsSpace(v[q])

(* C4 as stated: an ADD whose value is not exactly two tokens separated   *)
(* by one space is never translated: the translation fails.               *)
C4_Original ==
  (TheInst.instruction = <<"A","D","D">> /\ ~WellFormedAdd(TheValue)) => ~Translated

(* C4 amended: an ADD fails with the indexing error exactly when its      *)
(* value contains no space character; every other ADD value emits a wget  *)
(* line built from the first two pieces between single spaces.            *)
C4_AddFailure ==
  TheInst.instruction = <<"A","D","D">> =>
    /\ ~Contains(TheValue, SP) => ~Translated
    /\ Contains(TheValue, SP) => pc # "aborted"
    /\ Translated =>
         SubSeq(script, 1, Len(Shebang) + 8) = Shebang \o <<"w","g","e","t"," ","-","O"," ">>

(* an ADD with one token has aborted the run *)
C4_Witness ==
  /\ TheInst.instruction = <<"A","D","D">>
  /\ pc = "aborted"
  /\ TheValue # <<>>
  /\ ~Contains(TheValue, SP)

CountBQ(v, i) == Cardinality({j \in 1..i : v[j] = BQ})

(* the k-th grave accent becomes "$( for odd k and )" for even k *)
ParityReplace(v) ==
  Flatten([i \in 1..Len(v) |->
             IF v[i] # BQ THEN <<v[i]>>
             ELSE IF CountBQ(v, i) % 2 = 1 THEN <<DQ, DOLLAR, "(">> ELSE <<")", DQ>>])

(* C10: the replacement loop of RUN terminates; on its exit the k-th      *)
(* grave accent of the value has become "$( for odd k and )" for even k,  *)
(* and the emitted fragment holds no grave accent.                        *)
C10_BacktickLoop ==
  /\ []((pc = "while" /\ ~Contains(val, BQ)) => val = ParityReplace(TheValue))
  /\ []((IsRun(TheInst) /\ Translated) => ~Contains(script, BQ))
  /\ (pc = "while") ~> (pc # "while")

(* the loop has exited on a value with three grave accents *)
C10_Witness ==
  /\ pc = "while"
  /\ ~Contains(val, BQ)
  /\ CountBQ(TheValue, Len(TheValue)) = 3

====
